---- MODULE Spec2Model ----
(***************************************************************************)
(* Model of the Pix checkout widget: the transaction orchestrator          *)
(* (src/App.tsx: handleSubmit, resetForm, unmount cleanup), its polling     *)
(* engine (startPolling and the setInterval callback), the provider        *)
(* client (request, createBilling, checkBillingStatus), the persistence     *)
(* client (getAbacateApiKey, saveAbacateApiKeyToDB, saveTransaction,        *)
(* updateTransactionStatus) and the settings dialog (handleSaveConfig).     *)
(*                                                                         *)
(* The JavaScript run-time is single threaded: every action below is one   *)
(* run-to-completion piece of a handler, from its start or from the        *)
(* resumption of an await to the next await or to its end.                 *)
(***************************************************************************)
EXTENDS Integers, Sequences, FiniteSets, TLC

\* ------------------------------------------------------------------ bounds
\* Number of submits (and so of billings and of setInterval handles) in a run.
MaxSubmits == 2
\* Number of status checks that may be awaiting their response at a time.
MaxInFlight == 2
\* Number of ticks a polling timer is let fire in the runs of Spec.
MaxTicks == 2
\* The same bounds for the runs of SpecLimit, where a timer is let fire
\* until the attempt limit stops it.
LimitSubmits == 1
LimitInFlight == 1
\* Length of the data array of a list response given to checkBillingStatus.
MaxEntries == 2
\* Length of the CPF typed into the form in the runs of SpecProvider.
MaxFieldLen == 2
\* Number of handleSaveConfig invocations in the runs of SpecConfig, and of
\* ticks a polling timer is let fire there.
MaxSaves == 1
ConfigTicks == 1

\* ------------------------------------------------------- program constants
maxAttempts == 120
DEFAULT_AMOUNT_CENTS == 100

\* null of a billing / a setInterval handle; billing ids and handles are 1..
Null == 0
Billings == 1..MaxSubmits
\* An id of some other billing of the provider account, never one of ours.
OtherId == MaxSubmits + 1

\* null of a string
NoString == "<null>"

\* Status strings the provider may report for a billing.
ProviderStatuses == {"PENDING", "PAID", "CANCELED", "FAILED", "EXPIRED"}

\* ------------------------------------------------------- provider client
\* What the network does with one provider operation:
\*   direct : the direct fetch resolves with a response, rejects with the
\*            TypeError 'Failed to fetch', or rejects with another error;
\*   relay  : what the fetch through the relay does, when it is tried;
\*   ok     : response.ok of the response that arrives;
\*   body   : the body of that response.
\* A list body is [kind |-> "list", entries |-> <<[id, status], ...>>].
Bodies(entryIds) ==
  {[kind |-> k, entries |-> <<>>] : k \in {"unparsable", "noData", "noBrCode", "billing"}}
  \cup {[kind |-> "list", entries |-> e] :
          e \in UNION {[1..n -> [id : entryIds, status : ProviderStatuses]] : n \in 0..MaxEntries}}

Outcomes(bodies) ==
  [direct : {"response", "failedToFetch", "otherError"},
   relay : {"response", "error"},
   ok : BOOLEAN,
   body : bodies]

\* request retrying through the relay whatever the direct fetch threw.
requestRetryAny(o) ==
  IF o.direct = "response"
    THEN [threw |-> FALSE, message |-> NoString, ok |-> o.ok, body |-> o.body, fetches |-> 1]
  ELSE IF o.relay = "response"
    THEN [threw |-> FALSE, message |-> NoString, ok |-> o.ok, body |-> o.body, fetches |-> 2]
  ELSE [threw |-> TRUE, message |-> "Failed to fetch", ok |-> FALSE, body |-> o.body, fetches |-> 2]

\* request(url, options): the response, or the error it throws, and the
\* number of fetch calls made.
request(o) ==
  IF o.direct = "response"
    THEN [threw |-> FALSE, message |-> NoString, ok |-> o.ok, body |-> o.body, fetches |-> 1]
  ELSE IF o.direct = "failedToFetch"
    THEN IF o.relay = "response"
           THEN [threw |-> FALSE, message |-> NoString, ok |-> o.ok, body |-> o.body, fetches |-> 2]
           ELSE [threw |-> TRUE, message |-> "Failed to fetch", ok |-> FALSE, body |-> o.body, fetches |-> 2]
  ELSE [threw |-> TRUE, message |-> "network error", ok |-> FALSE, body |-> o.body, fetches |-> 1]

\* json.data.find(b => b.id === billingId): the first matching entry, or
\* undefined (the entry with id Null) when there is none.
RECURSIVE find(_, _)
find(entries, billingId) ==
  IF entries = <<>> THEN [id |-> Null, status |-> NoString]
  ELSE IF Head(entries).id = billingId THEN Head(entries)
  ELSE find(Tail(entries), billingId)

\* The try block of checkBillingStatus(apiKey, billingId): the value it
\* returns, or the message of what it throws.
checkBillingStatusTry(o, billingId) ==
  LET r == request(o) IN
  IF r.threw THEN [raised |-> TRUE, value |-> r.message]
  ELSE IF ~r.ok THEN [raised |-> FALSE, value |-> "PENDING"]
  ELSE IF r.body.kind = "unparsable" THEN [raised |-> TRUE, value |-> "Unexpected token"]
  ELSE IF r.body.kind = "list"
    THEN LET item == find(r.body.entries, billingId) IN
         [raised |-> FALSE, value |-> IF item.id # Null THEN item.status ELSE "PENDING"]
  ELSE [raised |-> FALSE, value |-> "PENDING"]

\* checkBillingStatus without its catch: what it would raise to its caller.
checkBillingStatusRethrow(o, billingId) == checkBillingStatusTry(o, billingId)

\* checkBillingStatus(apiKey, billingId): the try block, and the catch that
\* turns everything thrown into 'PENDING'.
checkBillingStatus(o, billingId) ==
  LET r == checkBillingStatusTry(o, billingId) IN
  IF r.raised THEN [raised |-> FALSE, value |-> "PENDING"] ELSE r

\* createBilling(apiKey, customer, amountInCents) for the billing the provider
\* would number id: [raised, message, id]. Its catch logs and rethrows.
createBilling(o, id) ==
  LET r == request(o) IN
  IF r.threw THEN [raised |-> TRUE, message |-> r.message, id |-> Null]
  ELSE IF ~r.ok THEN [raised |-> TRUE, message |-> "Request failed", id |-> Null]
  ELSE IF r.body.kind = "unparsable"
    THEN [raised |-> TRUE, message |-> "Unexpected token", id |-> Null]
  ELSE IF r.body.kind = "billing" THEN [raised |-> FALSE, message |-> NoString, id |-> id]
  ELSE [raised |-> TRUE, message |-> "Invalid response format", id |-> Null]

\* Form values as sequences of characters: what a CPF or phone input may hold.
Digits == {"1", "7"}
Punctuation == {".", "-"}
Typed(n) == UNION {[1..k -> Digits \cup Punctuation] : k \in 0..n}
Phones == {<<"(", "1", "1", ")", " ", "9">>, <<"1", "1", "9">>}
ProviderCustomers ==
  {[name |-> "Ana", email |-> "ana@x.br", phone |-> ph, cpf |-> c] :
     ph \in Phones, c \in Typed(MaxFieldLen)}

\* The amounts createBilling may be called with: the one handleSubmit
\* passes, and smaller ones.
Amounts == {1, DEFAULT_AMOUNT_CENTS - 1, DEFAULT_AMOUNT_CENTS}

\* The payload createBilling builds with the cleaned tax id.
payloadCleaned(customer, amountInCents) ==
  [amount |-> amountInCents, expiresIn |-> 3600,
   customer |-> [name |-> customer.name, cellphone |-> customer.phone,
                 email |-> customer.email,
                 taxId |-> SelectSeq(customer.cpf, LAMBDA c : c \in Digits)]]

\* The payload createBilling builds.
payload(customer, amountInCents) ==
  [amount |-> amountInCents, expiresIn |-> 3600,
   customer |-> [name |-> customer.name, cellphone |-> customer.phone,
                 email |-> customer.email, taxId |-> customer.cpf]]

\* What createBilling sends: its payload, and the fetch calls its request makes.
createBillingRequest(customer, amountInCents, o) ==
  [payload |-> payload(customer, amountInCents), fetches |-> request(o).fetches]

\* cleanString(value) of utils/formatters: the digits of value.
cleanString(value) == SelectSeq(value, LAMBDA c : c \in Digits)

\* The record handleSubmit passes to saveTransaction.
transactionRow(customer, billingId) ==
  [customer_name |-> customer.name, customer_email |-> customer.email,
   customer_cpf |-> cleanString(customer.cpf), abacate_billing_id |-> billingId,
   status |-> "PENDING"]

\* ---------------------------------------------------- persistence client
\* What the remote database does with one call: it answers without error,
\* answers with one of the error codes the code looks for, answers with
\* another error code, or the client call throws.
RemoteOutcomes == {"ok", "PGRST205", "42P01", "PGRST116", "other", "throws"}

\* getAbacateApiKey(): the key, or NoString (null). sb: a client exists;
\* remote: the value of the config row (NoString: no row, which .single()
\* reports as PGRST116); fallback: localStorage's abacate_api_key_fallback.
getAbacateApiKey(sb, read, remote, fallback) ==
  IF ~sb THEN fallback
  ELSE IF read = "throws" THEN fallback
  ELSE IF read \in {"PGRST205", "42P01", "PGRST116"} THEN fallback
  ELSE IF read # "ok" THEN NoString
  ELSE IF remote = NoString THEN fallback
  ELSE remote

\* saveAbacateApiKeyToDB with its throw outside the try block: any other
\* error code leaves the function.
saveAbacateApiKeyToDBThrowOutside(sb, write, apiKey, remote, fallback) ==
  IF ~sb THEN [raised |-> FALSE, remote |-> remote, fallback |-> apiKey, upserted |-> FALSE]
  ELSE IF write = "ok"
    THEN [raised |-> FALSE, remote |-> apiKey, fallback |-> NoString, upserted |-> TRUE]
  ELSE IF write \in {"PGRST205", "42P01", "throws"}
    THEN [raised |-> FALSE, remote |-> remote, fallback |-> apiKey, upserted |-> FALSE]
  ELSE [raised |-> TRUE, remote |-> remote, fallback |-> fallback, upserted |-> FALSE]

\* saveAbacateApiKeyToDB(apiKey): whether it raised, the config row and the
\* fallback value it leaves, and whether the upsert took effect. The error it
\* throws for any other error code is thrown inside its try block.
saveAbacateApiKeyToDB(sb, write, apiKey, remote, fallback) ==
  IF ~sb THEN [raised |-> FALSE, remote |-> remote, fallback |-> apiKey, upserted |-> FALSE]
  ELSE IF write = "throws"
    THEN [raised |-> FALSE, remote |-> remote, fallback |-> apiKey, upserted |-> FALSE]
  ELSE IF write \in {"PGRST205", "42P01"}
    THEN [raised |-> FALSE, remote |-> remote, fallback |-> apiKey, upserted |-> FALSE]
  ELSE IF write # "ok"
    THEN [raised |-> FALSE, remote |-> remote, fallback |-> apiKey, upserted |-> FALSE]
  ELSE [raised |-> FALSE, remote |-> apiKey, fallback |-> NoString, upserted |-> TRUE]

\* saveTransaction(transaction): it has no try block; an error answered by
\* the database is logged, a thrown client call leaves the function. Result:
\* whether it raised and whether a request was sent.
saveTransaction(sb, write) ==
  IF ~sb THEN [raised |-> FALSE, sent |-> FALSE]
  ELSE [raised |-> (write = "throws"), sent |-> TRUE]

\* updateTransactionStatus(billingId, status): like saveTransaction it has no
\* try block.
updateTransactionStatus(sb, write) ==
  IF ~sb THEN [raised |-> FALSE, sent |-> FALSE]
  ELSE [raised |-> (write = "throws"), sent |-> TRUE]

\* ------------------------------------------------------------- the state
VARIABLES
  \* services/supabaseService
  supabase,          \* the module's client exists
  remoteKey,         \* value of the app_config row abacate_api_key
  fallbackKey,       \* localStorage abacate_api_key_fallback
  \* App component state (useState)
  formData,
  isLoading,
  error,
  transaction,       \* id of the billing shown, or Null
  paymentStatus,
  isSettingsOpen,
  isSupabaseConfigured,
  \* App refs, timers and the run-time
  pollIntervalRef,   \* handle held by the ref (not reset when cleared), or Null
  timers,            \* active setInterval handles -> attempts of their closure
  mounted,
  sub,               \* the running handleSubmit: where it awaits, its locals
  nSubmits,          \* handleSubmit invocations so far
  inflight,          \* billing -> polling callbacks awaiting checkBillingStatus
  \* history of the calls made (observation only)
  observed,          \* billing -> terminal states a status check of it produced
  updateCalls,       \* billing -> number of updateTransactionStatus calls
  lastUpdate,        \* the latest updateTransactionStatus call: its arguments
                     \* and whether it sent the update
  timedOut,          \* billings whose loop the attempt limit stopped
  cancelled,         \* resetForm or the unmount cleanup ran, and no submit since
  \* the settings dialog
  cfg,               \* the running handleSaveConfig: where it awaits, its argument
  nSaves,            \* handleSaveConfig invocations so far
  remoteSaved,       \* an upsert of the provider key has succeeded (observation)
  \* the provider
  reportsPaid,       \* billings whose status checks return PAID from now on
  \* one call of a service function on its own (SpecCheck, SpecProvider,
  \* SpecStore)
  call,              \* <<>> or <<the arguments and the outcome of the remote call>>
  ret                \* <<>> or <<what the call returned>>

vars == <<supabase, remoteKey, fallbackKey, formData, isLoading, error, transaction,
          paymentStatus, isSettingsOpen, isSupabaseConfigured, pollIntervalRef, timers,
          mounted, sub, nSubmits, inflight, observed, updateCalls, lastUpdate,
          timedOut, cancelled, cfg, nSaves, remoteSaved, reportsPaid, call, ret>>

storeVars == <<supabase, remoteKey, fallbackKey>>
histVars == <<observed, updateCalls, lastUpdate, timedOut, cancelled>>
callVars == <<call, ret>>
cfgVars == <<cfg, nSaves, remoteSaved>>

ApiKey == "sk_test_123"
\* Provider keys typed into the settings dialog.
Keys == {ApiKey, "sk_live_456"}
\* What the settings dialog passes to handleSaveConfig.
NewConfigs == [abacateApiKey : {"", ApiKey}, supabaseUrl : {"", "https://x.supabase.co"},
               supabaseKey : {"", "anon"}]
EmptyForm == [name |-> "", email |-> "", phone |-> "", cpf |-> ""]
Customers == {[name |-> "Ana", email |-> "ana@x.br", phone |-> "(11) 99999-9999",
               cpf |-> "123.456.789-09"]}

MsgNoKey == "API Key do Abacate Pay nao encontrada no Banco de Dados. Configure-a no menu."
MsgNotConfigured == "Conecte-se ao Supabase nas configuracoes primeiro."
MsgConnection == "Erro de conexao. Verifique se o Supabase esta acessivel."
MsgSaveConfig == "Erro ao salvar configuracoes no Supabase. Verifique a URL e a Key."

\* handleSubmit is not running. Besides its position and locals the record
\* keeps what the latest handleSubmit did: the calls of createBilling,
\* saveTransaction and startPolling it made, the status of the row its
\* saveTransaction sent to the transactions table, the active timer its
\* startPolling cleared, and how it ended (cause: what made it fail).
SubIdle == [pc |-> "idle", abacateKey |-> NoString, billing |-> Null,
            creates |-> 0, saves |-> 0, inserted |-> NoString, polls |-> 0,
            cleared |-> Null, result |-> "none", cause |-> "none"]

\* handleSaveConfig is not running.
CfgIdle == [pc |-> "idle", newConfig |-> [abacateApiKey |-> "", supabaseUrl |-> "",
                                          supabaseKey |-> ""]]

\* The state of App after it is mounted.
InitUI ==
  /\ formData = EmptyForm
  /\ isLoading = FALSE
  /\ error = NoString
  /\ transaction = Null
  /\ paymentStatus = "PENDING"
  /\ isSettingsOpen = FALSE
  /\ isSupabaseConfigured = TRUE
  /\ pollIntervalRef = Null
  /\ timers = [h \in {} |-> 0]
  /\ mounted = TRUE
  /\ sub = SubIdle
  /\ nSubmits = 0
  /\ inflight = [b \in Billings |-> 0]
  /\ observed = [b \in Billings |-> {}]
  /\ updateCalls = [b \in Billings |-> 0]
  /\ lastUpdate = [billing |-> Null, status |-> NoString, sent |-> FALSE]
  /\ timedOut = {}
  /\ cancelled = FALSE
  /\ cfg = CfgIdle
  /\ nSaves = 0
  /\ remoteSaved = FALSE
  /\ reportsPaid = {}

\* The state after the module is loaded and App is mounted. Whether a client
\* exists depends on the configured URL and key. With a client both results
\* of getAbacateApiKey (a key, null) arise from the remote outcomes whatever
\* the fallback holds, so the fallback starts empty there; without a client
\* the fallback is the only source and starts empty or set.
InitApp ==
  /\ supabase \in BOOLEAN
  /\ remoteKey = ApiKey
  /\ fallbackKey \in (IF supabase THEN {NoString} ELSE {NoString, ApiKey})
  /\ InitUI

Init ==
  /\ InitApp
  /\ call = <<>>
  /\ ret = <<>>

\* ------------------------------------------------------------------ timers
\* The timers left after clearInterval(handle): a handle that is null or
\* already cleared changes nothing.
clearInterval(ts, handle) == [h \in (DOMAIN ts) \ {handle} |-> ts[h]]

\* if (pollIntervalRef.current) clearInterval(pollIntervalRef.current)
clearPolling(ts) == IF pollIntervalRef # Null THEN clearInterval(ts, pollIntervalRef) ELSE ts

\* setInterval(callback, 5000) for the loop of billingId: the closure starts
\* with attempts = 0. Each billing is polled by one call, so the handle the
\* run-time returns is numbered by the billing.
setInterval(ts, billingId) == [h \in (DOMAIN ts) \cup {billingId} |-> IF h = billingId THEN 0 ELSE ts[h]]

\* startPolling without the clearInterval of the timer held in the ref.
startPollingNoClear(billingId) ==
  /\ timers' = setInterval(timers, billingId)
  /\ pollIntervalRef' = billingId

\* startPolling(billingId, apiKey)
startPolling(billingId) ==
  /\ timers' = setInterval(clearPolling(timers), billingId)
  /\ pollIntervalRef' = billingId

\* ------------------------------------------------------------ handleSubmit
\* let msg = err.message; if (msg === 'Failed to fetch') msg = ...
normalize(msg) == IF msg = "Failed to fetch" THEN MsgConnection ELSE msg

\* err.message.includes("API Key")
mentionsApiKey(msg) == msg = MsgNoKey

\* The end of handleSubmit: its catch when msg is the message of what was
\* thrown (NoString: nothing was), and its finally.
SubmitEnd(s, msg, why) ==
  /\ error' = IF msg = NoString THEN NoString ELSE normalize(msg)
  /\ isSettingsOpen' = IF msg # NoString /\ mentionsApiKey(msg) THEN TRUE ELSE isSettingsOpen
  /\ isLoading' = FALSE
  /\ sub' = [s EXCEPT !.pc = "idle",
                      !.result = IF msg = NoString THEN "started" ELSE "failed",
                      !.cause = why]

\* From the return of saveTransaction: step 4, startPolling.
SaveStage(s, sv) ==
  IF sv.raised
    THEN /\ UNCHANGED <<timers, pollIntervalRef>>
         /\ SubmitEnd(s, "network error", "saveTransaction")
    ELSE /\ startPolling(s.billing)
         /\ SubmitEnd([s EXCEPT !.polls = @ + 1,
                                 !.cleared = IF pollIntervalRef \in DOMAIN timers
                                               THEN pollIntervalRef ELSE Null],
                      NoString, "none")

\* createBilling threw: the catch.
CreateFailed(s, r) ==
  /\ UNCHANGED <<transaction, paymentStatus, timers, pollIntervalRef>>
  /\ SubmitEnd(s, r.message, "createBilling")

\* handleSubmit going from createBilling to startPolling without
\* saveTransaction.
CreateReturnedNoSave(s, r) ==
  /\ transaction' = r.id
  /\ paymentStatus' = "PENDING"
  /\ startPolling(r.id)
  /\ SubmitEnd([s EXCEPT !.billing = r.id, !.polls = @ + 1,
                          !.cleared = IF pollIntervalRef \in DOMAIN timers
                                        THEN pollIntervalRef ELSE Null],
               NoString, "none")

\* createBilling returned the billing: setTransaction, setPaymentStatus and
\* the call of saveTransaction, which returns at once when there is no client.
CreateReturned(s, r) ==
  /\ transaction' = r.id
  /\ paymentStatus' = "PENDING"
  /\ IF supabase
       THEN /\ sub' = [s EXCEPT !.pc = "saveTransaction", !.billing = r.id, !.saves = @ + 1,
                                !.inserted = "PENDING"]
            /\ UNCHANGED <<timers, pollIntervalRef, error, isLoading, isSettingsOpen>>
       ELSE SaveStage([s EXCEPT !.billing = r.id, !.saves = @ + 1],
                      saveTransaction(supabase, "ok"))

\* handleSubmit starting the polling before it awaits saveTransaction.
CreateStageEarlyPolling(s, r) ==
  IF r.raised THEN CreateFailed(s, r)
  ELSE IF supabase
    THEN /\ transaction' = r.id
         /\ paymentStatus' = "PENDING"
         /\ startPolling(r.id)
         /\ sub' = [s EXCEPT !.pc = "saveTransaction", !.billing = r.id, !.saves = @ + 1,
                             !.inserted = "PENDING"]
         /\ UNCHANGED <<error, isLoading, isSettingsOpen>>
    ELSE CreateReturned(s, r)

\* handleSubmit calling createBilling once more when it threw.
CreateStageRetry(s, r) ==
  IF r.raised /\ s.creates < 2
    THEN /\ sub' = [s EXCEPT !.creates = @ + 1]
         /\ UNCHANGED <<transaction, paymentStatus, timers, pollIntervalRef, error, isLoading,
                        isSettingsOpen>>
  ELSE IF r.raised THEN CreateFailed(s, r)
  ELSE CreateReturned(s, r)

\* From the return of createBilling.
CreateStage(s, r) == IF r.raised THEN CreateFailed(s, r) ELSE CreateReturned(s, r)

\* From the return of getAbacateApiKey: the null check and the call of
\* createBilling, which always awaits a fetch.
KeyStage(s, key) ==
  IF key = NoString
    THEN /\ UNCHANGED <<transaction, paymentStatus, timers, pollIntervalRef>>
         /\ SubmitEnd(s, MsgNoKey, "getAbacateApiKey")
    ELSE /\ sub' = [s EXCEPT !.pc = "createBilling", !.abacateKey = key, !.creates = @ + 1]
         /\ error' = NoString
         /\ isLoading' = TRUE
         /\ UNCHANGED <<transaction, paymentStatus, timers, pollIntervalRef, isSettingsOpen>>

\* handleSubmit without its test of isSupabaseConfigured.
submitNoConfigCheck(maxSubmits) ==
  /\ mounted /\ transaction = Null /\ ~isLoading /\ formData # EmptyForm
  /\ nSubmits < maxSubmits
  /\ nSubmits' = nSubmits + 1
  /\ IF supabase
       THEN /\ error' = NoString
            /\ isLoading' = TRUE
            /\ sub' = [SubIdle EXCEPT !.pc = "getAbacateApiKey"]
            /\ UNCHANGED <<transaction, paymentStatus, timers, pollIntervalRef, isSettingsOpen>>
       ELSE KeyStage(SubIdle, getAbacateApiKey(supabase, "ok", remoteKey, fallbackKey))
  /\ cancelled' = FALSE
  /\ UNCHANGED <<storeVars, cfgVars, reportsPaid, formData, isSupabaseConfigured, mounted, inflight,
                 observed, updateCalls, lastUpdate, timedOut, callVars>>

\* The form is rendered while no transaction is shown; its button is disabled
\* while isLoading; its four inputs are required.
submit(maxSubmits) ==
  /\ mounted /\ transaction = Null /\ ~isLoading /\ formData # EmptyForm
  /\ nSubmits < maxSubmits
  /\ nSubmits' = nSubmits + 1
  /\ IF ~isSupabaseConfigured
       THEN /\ error' = MsgNotConfigured
            /\ isSettingsOpen' = TRUE
            /\ isLoading' = FALSE
            /\ sub' = [SubIdle EXCEPT !.result = "failed", !.cause = "isSupabaseConfigured"]
            /\ UNCHANGED <<transaction, paymentStatus, timers, pollIntervalRef>>
       ELSE IF supabase
         THEN /\ error' = NoString
              /\ isLoading' = TRUE
              /\ sub' = [SubIdle EXCEPT !.pc = "getAbacateApiKey"]
              /\ UNCHANGED <<transaction, paymentStatus, timers, pollIntervalRef, isSettingsOpen>>
         ELSE KeyStage(SubIdle, getAbacateApiKey(supabase, "ok", remoteKey, fallbackKey))
  /\ cancelled' = FALSE
  /\ UNCHANGED <<storeVars, cfgVars, reportsPaid, formData, isSupabaseConfigured, mounted, inflight, observed,
                 updateCalls, lastUpdate, timedOut, callVars>>

handleSubmit == submit(MaxSubmits)

\* The remote read of getAbacateApiKey answers.
SubmitKeyFetched ==
  /\ sub.pc = "getAbacateApiKey"
  /\ \E read \in RemoteOutcomes :
       KeyStage(sub, getAbacateApiKey(supabase, read, remoteKey, fallbackKey))
  /\ UNCHANGED <<storeVars, cfgVars, reportsPaid, formData, isSupabaseConfigured, mounted, nSubmits, inflight,
                 histVars, callVars>>

\* The network outcomes handleSubmit's createBilling is given.
CreateOutcomes == Outcomes({[kind |-> k, entries |-> <<>>] :
                              k \in {"unparsable", "noData", "noBrCode", "billing"}})

\* createBilling returns or throws; the provider numbers the billing.
SubmitBillingCreated ==
  /\ sub.pc = "createBilling"
  /\ \E o \in CreateOutcomes : CreateStage(sub, createBilling(o, nSubmits))
  /\ UNCHANGED <<storeVars, cfgVars, reportsPaid, formData, isSupabaseConfigured, mounted, nSubmits, inflight,
                 histVars, callVars>>

\* The insert of saveTransaction answers.
SubmitSaved ==
  /\ sub.pc = "saveTransaction"
  /\ \E write \in RemoteOutcomes : SaveStage(sub, saveTransaction(supabase, write))
  /\ UNCHANGED <<storeVars, cfgVars, reportsPaid, formData, transaction, paymentStatus, isSupabaseConfigured,
                 mounted, nSubmits, inflight, histVars, callVars>>

\* ------------------------------------------------------- the other handlers
handleInputChange ==
  /\ mounted /\ transaction = Null
  /\ \E c \in Customers : formData' = c
  /\ formData' # formData
  /\ UNCHANGED <<storeVars, cfgVars, reportsPaid, isLoading, error, transaction, paymentStatus, isSettingsOpen,
                 isSupabaseConfigured, pollIntervalRef, timers, mounted, sub, nSubmits,
                 inflight, histVars, callVars>>

\* resetForm returning after setTransaction(null) when the ref holds no timer.
resetFormIfPolling ==
  /\ mounted /\ transaction # Null
  /\ transaction' = Null
  /\ IF pollIntervalRef = Null
       THEN UNCHANGED <<paymentStatus, formData, timers>>
       ELSE /\ paymentStatus' = "PENDING"
            /\ formData' = EmptyForm
            /\ timers' = clearPolling(timers)
  /\ cancelled' = TRUE
  /\ UNCHANGED <<storeVars, cfgVars, reportsPaid, isLoading, error, isSettingsOpen, isSupabaseConfigured,
                 pollIntervalRef, mounted, sub, nSubmits, inflight, observed, updateCalls,
                 lastUpdate, timedOut, callVars>>

\* Both buttons that call resetForm are rendered while a transaction is shown.
resetForm ==
  /\ mounted /\ transaction # Null
  /\ transaction' = Null
  /\ paymentStatus' = "PENDING"
  /\ formData' = EmptyForm
  /\ timers' = clearPolling(timers)
  /\ cancelled' = TRUE
  /\ UNCHANGED <<storeVars, cfgVars, reportsPaid, isLoading, error, isSettingsOpen, isSupabaseConfigured,
                 pollIntervalRef, mounted, sub, nSubmits, inflight, observed, updateCalls,
                 lastUpdate, timedOut, callVars>>

\* The cleanup of the effect, at unmount.
unmount ==
  /\ mounted
  /\ mounted' = FALSE
  /\ timers' = clearPolling(timers)
  /\ cancelled' = TRUE
  /\ UNCHANGED <<storeVars, cfgVars, reportsPaid, formData, isLoading, error, transaction, paymentStatus,
                 isSettingsOpen, isSupabaseConfigured, pollIntervalRef, sub, nSubmits,
                 inflight, observed, updateCalls, lastUpdate, timedOut, callVars>>

\* ------------------------------------------------------ the settings dialog
\* supabase after initSupabase(url, key)
initSupabase(sb, url, key) == IF url = "" \/ key = "" THEN sb ELSE TRUE

\* The buttons that open and close the dialog.
openSettings ==
  /\ mounted /\ ~isSettingsOpen
  /\ isSettingsOpen' = TRUE
  /\ UNCHANGED <<storeVars, cfgVars, reportsPaid, formData, isLoading, error, transaction, paymentStatus,
                 isSupabaseConfigured, pollIntervalRef, timers, mounted, sub, nSubmits,
                 inflight, histVars, callVars>>

closeSettings ==
  /\ mounted /\ isSettingsOpen
  /\ isSettingsOpen' = FALSE
  /\ UNCHANGED <<storeVars, cfgVars, reportsPaid, formData, isLoading, error, transaction, paymentStatus,
                 isSupabaseConfigured, pollIntervalRef, timers, mounted, sub, nSubmits,
                 inflight, histVars, callVars>>

\* The end of handleSaveConfig: its catch when saveAbacateApiKeyToDB raised,
\* otherwise its steps 3 (the config state and the app_config entry of
\* localStorage, which only feed the dialog's inputs, are not kept).
ConfigEnd(newConfig, raised) ==
  /\ cfg' = CfgIdle
  /\ IF raised
       THEN /\ error' = MsgSaveConfig
            /\ UNCHANGED <<isSupabaseConfigured, isSettingsOpen>>
       ELSE /\ isSupabaseConfigured' = (newConfig.supabaseUrl # "")
            /\ isSettingsOpen' = FALSE
            /\ error' = NoString

\* The dialog's save button: initSupabase, then saveAbacateApiKeyToDB when a
\* key was typed, which returns at once when there is no client. One
\* handleSaveConfig runs at a time.
handleSaveConfig ==
  /\ mounted /\ isSettingsOpen /\ cfg.pc = "idle" /\ nSaves < MaxSaves
  /\ nSaves' = nSaves + 1
  /\ \E newConfig \in NewConfigs :
       /\ supabase' = initSupabase(supabase, newConfig.supabaseUrl, newConfig.supabaseKey)
       /\ IF newConfig.abacateApiKey = ""
            THEN /\ ConfigEnd(newConfig, FALSE)
                 /\ UNCHANGED <<remoteKey, fallbackKey, remoteSaved>>
          ELSE IF ~supabase'
            THEN LET r == saveAbacateApiKeyToDB(FALSE, "ok", newConfig.abacateApiKey,
                                                remoteKey, fallbackKey) IN
                 /\ remoteKey' = r.remote
                 /\ fallbackKey' = r.fallback
                 /\ remoteSaved' = (remoteSaved \/ r.upserted)
                 /\ ConfigEnd(newConfig, r.raised)
            ELSE /\ cfg' = [pc |-> "saveAbacateApiKeyToDB", newConfig |-> newConfig]
                 /\ UNCHANGED <<remoteKey, fallbackKey, remoteSaved, error,
                                isSupabaseConfigured, isSettingsOpen>>
  /\ UNCHANGED <<formData, isLoading, transaction, paymentStatus, pollIntervalRef, timers,
                 mounted, sub, nSubmits, inflight, histVars, reportsPaid, callVars>>

\* The upsert of saveAbacateApiKeyToDB answers.
SaveConfigStored ==
  /\ cfg.pc = "saveAbacateApiKeyToDB"
  /\ \E write \in RemoteOutcomes :
       LET r == saveAbacateApiKeyToDB(supabase, write, cfg.newConfig.abacateApiKey,
                                      remoteKey, fallbackKey) IN
       /\ remoteKey' = r.remote
       /\ fallbackKey' = r.fallback
       /\ remoteSaved' = (remoteSaved \/ r.upserted)
       /\ ConfigEnd(cfg.newConfig, r.raised)
  /\ UNCHANGED <<supabase, nSaves, formData, isLoading, transaction, paymentStatus,
                 pollIntervalRef, timers, mounted, sub, nSubmits, inflight, histVars,
                 reportsPaid, callVars>>

\* ------------------------------------------------------- the polling engine
RECURSIVE Sum(_, _)
Sum(f, S) == IF S = {} THEN 0 ELSE LET x == CHOOSE y \in S : TRUE IN f[x] + Sum(f, S \ {x})

\* Polling callbacks awaiting their checkBillingStatus.
InFlight == Sum(inflight, Billings)

\* The callback with the limit test off by one (attempts > maxAttempts + 1).
pollTickOffByOne(h, maxInFlight) ==
  LET attempts == timers[h] + 1 IN
  IF attempts > maxAttempts + 1
    THEN /\ timers' = clearPolling([timers EXCEPT ![h] = attempts])
         /\ timedOut' = timedOut \cup {h}
         /\ UNCHANGED inflight
    ELSE /\ InFlight < maxInFlight
         /\ timers' = [timers EXCEPT ![h] = attempts]
         /\ inflight' = [inflight EXCEPT ![h] = @ + 1]
         /\ UNCHANGED timedOut

\* The callback without its limit test.
pollTickNoLimit(h, maxInFlight) ==
  /\ InFlight < maxInFlight
  /\ timers' = [timers EXCEPT ![h] = timers[h] + 1]
  /\ inflight' = [inflight EXCEPT ![h] = @ + 1]
  /\ UNCHANGED timedOut

\* The callback of setInterval up to its await: attempts++, the limit, and
\* the call of checkBillingStatus.
pollTick(h, maxInFlight) ==
  LET attempts == timers[h] + 1 IN
  IF attempts > maxAttempts
    THEN /\ timers' = clearPolling([timers EXCEPT ![h] = attempts])
         /\ timedOut' = timedOut \cup {h}
         /\ UNCHANGED inflight
    ELSE /\ InFlight < maxInFlight
         /\ timers' = [timers EXCEPT ![h] = attempts]
         /\ inflight' = [inflight EXCEPT ![h] = @ + 1]
         /\ UNCHANGED timedOut

tick(maxTicks, maxInFlight) ==
  /\ \E h \in DOMAIN timers : timers[h] < maxTicks /\ pollTick(h, maxInFlight)
  /\ UNCHANGED <<storeVars, cfgVars, reportsPaid, formData, isLoading, error, transaction, paymentStatus,
                 isSettingsOpen, isSupabaseConfigured, pollIntervalRef, mounted, sub,
                 nSubmits, observed, updateCalls, lastUpdate, cancelled, callVars>>

PollTick == tick(MaxTicks, MaxInFlight)

\* await updateTransactionStatus(billingId, status): the callback does
\* nothing after it, and what it throws reaches the callback's catch, which
\* only logs, so the outcome of the remote call changes no state; the update
\* is sent whenever a client exists.
callUpdate(billingId, status) ==
  /\ updateCalls' = [updateCalls EXCEPT ![billingId] = @ + 1]
  /\ lastUpdate' = [billing |-> billingId, status |-> status,
                    sent |-> updateTransactionStatus(supabase, "ok").sent]

\* The callback persisting the state it shows ('FAILED') instead of status.
pollStatusShown(billingId, status) ==
  IF status = "PAID"
    THEN /\ paymentStatus' = "PAID"
         /\ timers' = clearPolling(timers)
         /\ callUpdate(billingId, "PAID")
         /\ observed' = [observed EXCEPT ![billingId] = @ \cup {"PAID"}]
  ELSE IF status = "CANCELED" \/ status = "FAILED"
    THEN /\ paymentStatus' = "FAILED"
         /\ timers' = clearPolling(timers)
         /\ callUpdate(billingId, "FAILED")
         /\ observed' = [observed EXCEPT ![billingId] = @ \cup {"FAILED"}]
  ELSE UNCHANGED <<paymentStatus, timers, updateCalls, lastUpdate, observed>>

\* The callback without its branch for 'PAID'.
pollStatusNoPaid(billingId, status) ==
  IF status = "CANCELED" \/ status = "FAILED"
    THEN /\ paymentStatus' = "FAILED"
         /\ timers' = clearPolling(timers)
         /\ callUpdate(billingId, status)
         /\ observed' = [observed EXCEPT ![billingId] = @ \cup {"FAILED"}]
  ELSE UNCHANGED <<paymentStatus, timers, updateCalls, lastUpdate, observed>>

\* The callback from the return of checkBillingStatus with status.
pollStatus(billingId, status) ==
  IF status = "PAID"
    THEN /\ paymentStatus' = "PAID"
         /\ timers' = clearPolling(timers)
         /\ callUpdate(billingId, "PAID")
         /\ observed' = [observed EXCEPT ![billingId] = @ \cup {"PAID"}]
  ELSE IF status = "CANCELED" \/ status = "FAILED"
    THEN /\ paymentStatus' = "FAILED"
         /\ timers' = clearPolling(timers)
         /\ callUpdate(billingId, status)
         /\ observed' = [observed EXCEPT ![billingId] = @ \cup {"FAILED"}]
  ELSE UNCHANGED <<paymentStatus, timers, updateCalls, lastUpdate, observed>>

\* The network outcomes a polling callback's checkBillingStatus is given.
PollOutcomes(b) ==
  LET body(k, e) == [kind |-> k, entries |-> e]
      out(d, r, k, bd) == [direct |-> d, relay |-> r, ok |-> k, body |-> bd]
  IN {out("otherError", "error", TRUE, body("noData", <<>>)),
      out("failedToFetch", "error", TRUE, body("noData", <<>>)),
      out("response", "error", FALSE, body("noData", <<>>)),
      out("response", "error", TRUE, body("unparsable", <<>>)),
      out("response", "error", TRUE, body("noData", <<>>)),
      out("response", "error", TRUE, body("list", <<>>)),
      out("response", "error", TRUE, body("list", <<[id |-> OtherId, status |-> "PAID"]>>)),
      out("failedToFetch", "response", TRUE, body("list", <<[id |-> b, status |-> "PAID"]>>))}
     \cup {out("response", "error", TRUE, body("list", <<[id |-> b, status |-> st]>>)) :
             st \in ProviderStatuses}

\* The checkBillingStatus of a polling callback of billing b returns, the
\* network having done o: the rest of the callback, whose catch logs.
respond(b, o) ==
  /\ inflight[b] > 0
  /\ inflight' = [inflight EXCEPT ![b] = @ - 1]
  /\ LET r == checkBillingStatus(o, b) IN
     IF r.raised
       THEN UNCHANGED <<paymentStatus, timers, updateCalls, lastUpdate, observed>>
       ELSE pollStatus(b, r.value)
  /\ UNCHANGED <<storeVars, cfgVars, reportsPaid, formData, isLoading, error, transaction, isSettingsOpen,
                 isSupabaseConfigured, pollIntervalRef, mounted, sub, nSubmits,
                 timedOut, cancelled, callVars>>

PollResponse == \E b \in Billings : \E o \in PollOutcomes(b) : respond(b, o)

Next ==
  \/ handleInputChange
  \/ handleSubmit
  \/ SubmitKeyFetched
  \/ SubmitBillingCreated
  \/ SubmitSaved
  \/ resetForm
  \/ unmount
  \/ PollTick
  \/ PollResponse

Spec == Init /\ [][Next]_vars

\* The same program with every timer let fire up to its attempt limit.
handleSubmitToLimit == submit(LimitSubmits)
PollTickToLimit == tick(maxAttempts + 1, LimitInFlight)

NextLimit ==
  \/ handleInputChange
  \/ handleSubmitToLimit
  \/ SubmitKeyFetched
  \/ SubmitBillingCreated
  \/ SubmitSaved
  \/ resetForm
  \/ unmount
  \/ PollTickToLimit
  \/ PollResponse

SpecLimit == Init /\ [][NextLimit]_vars

\* One call of checkBillingStatus, for every outcome of the network.
InitCheck ==
  /\ InitApp
  /\ \E b \in Billings : \E o \in Outcomes(Bodies({b, OtherId})) :
       call = <<[o |-> o, billingId |-> b]>>
  /\ ret = <<>>

CallCheck ==
  /\ call # <<>> /\ ret = <<>>
  /\ ret' = <<checkBillingStatus(call[1].o, call[1].billingId)>>
  /\ UNCHANGED <<storeVars, cfgVars, reportsPaid, formData, isLoading, error, transaction, paymentStatus,
                 isSettingsOpen, isSupabaseConfigured, pollIntervalRef, timers, mounted,
                 sub, nSubmits, inflight, histVars, call>>

NextCheck == CallCheck

SpecCheck == InitCheck /\ [][NextCheck]_vars

\* One call of a provider operation, for every outcome of the network, and
\* for createBilling the record handleSubmit then builds for saveTransaction.
InitProvider ==
  /\ InitApp
  /\ \/ \E c \in ProviderCustomers : \E a \in Amounts : \E o \in CreateOutcomes :
          call = <<[op |-> "createBilling", customer |-> c, amountInCents |-> a, o |-> o,
                    billingId |-> 1]>>
     \/ \E b \in Billings : \E o \in Outcomes(Bodies({b, OtherId})) :
          call = <<[op |-> "checkBillingStatus", customer |-> EmptyForm,
                    amountInCents |-> DEFAULT_AMOUNT_CENTS, o |-> o, billingId |-> b]>>
  /\ ret = <<>>

providerFrame ==
  UNCHANGED <<storeVars, cfgVars, reportsPaid, formData, isLoading, error, transaction, paymentStatus,
              isSettingsOpen, isSupabaseConfigured, pollIntervalRef, timers, mounted,
              sub, nSubmits, inflight, histVars, call>>

CallCreateBilling ==
  /\ call[1].op = "createBilling" /\ ret = <<>>
  /\ ret' = <<[request |-> createBillingRequest(call[1].customer, call[1].amountInCents,
                                                call[1].o),
               result |-> createBilling(call[1].o, call[1].billingId)]>>
  /\ providerFrame

BuildTransaction ==
  /\ call[1].op = "createBilling" /\ Len(ret) = 1 /\ ~ret[1].result.raised
  /\ ret' = Append(ret, transactionRow(call[1].customer, ret[1].result.id))
  /\ providerFrame

CallCheckBillingStatus ==
  /\ call[1].op = "checkBillingStatus" /\ ret = <<>>
  /\ ret' = <<[request |-> [fetches |-> request(call[1].o).fetches],
               result |-> checkBillingStatus(call[1].o, call[1].billingId)]>>
  /\ providerFrame

NextProvider ==
  \/ CallCreateBilling
  \/ BuildTransaction
  \/ CallCheckBillingStatus

SpecProvider == InitProvider /\ [][NextProvider]_vars

\* The program with every timer let fire up to its attempt limit, the timer
\* firing for as long as it is active and every status check returning. The
\* provider may come to report a polled billing as PAID: from then on every
\* status check of that billing that returns, returns PAID.
ProviderReportsPaid ==
  /\ \E b \in (DOMAIN timers) \ reportsPaid : reportsPaid' = reportsPaid \cup {b}
  /\ UNCHANGED <<storeVars, cfgVars, formData, isLoading, error, transaction, paymentStatus,
                 isSettingsOpen, isSupabaseConfigured, pollIntervalRef, timers, mounted,
                 sub, nSubmits, inflight, histVars, callVars>>

PollResponseReported ==
  \E b \in Billings : \E o \in PollOutcomes(b) :
    /\ b \in reportsPaid => checkBillingStatus(o, b).value = "PAID"
    /\ respond(b, o)

NextFair ==
  \/ handleInputChange
  \/ handleSubmitToLimit
  \/ SubmitKeyFetched
  \/ SubmitBillingCreated
  \/ SubmitSaved
  \/ resetForm
  \/ unmount
  \/ PollTickToLimit
  \/ PollResponseReported
  \/ ProviderReportsPaid

SpecFair ==
  /\ Init /\ [][NextFair]_vars
  /\ WF_vars(PollTickToLimit)
  /\ WF_vars(PollResponseReported)

\* The program with its settings dialog.
PollTickConfig == tick(ConfigTicks, LimitInFlight)

NextConfig ==
  \/ handleInputChange
  \/ handleSubmitToLimit
  \/ SubmitKeyFetched
  \/ SubmitBillingCreated
  \/ SubmitSaved
  \/ resetForm
  \/ unmount
  \/ PollTickConfig
  \/ PollResponse
  \/ openSettings
  \/ closeSettings
  \/ handleSaveConfig
  \/ SaveConfigStored

SpecConfig == Init /\ [][NextConfig]_vars

\* The persistence client's provider key on its own: any sequence of
\* initSupabase, saveAbacateApiKeyToDB and getAbacateApiKey calls, for every
\* outcome of the remote call, from an empty config row and an empty fallback.
\* call and ret hold the latest call and what it returned.
InitStore ==
  /\ supabase \in BOOLEAN
  /\ remoteKey = NoString
  /\ fallbackKey = NoString
  /\ InitUI
  /\ call = <<>>
  /\ ret = <<>>

storeFrame ==
  UNCHANGED <<cfg, nSaves, formData, isLoading, error, transaction, paymentStatus,
              isSettingsOpen, isSupabaseConfigured, pollIntervalRef, timers, mounted,
              sub, nSubmits, inflight, histVars, reportsPaid>>

CallInitSupabase ==
  /\ \E url \in {"", "https://x.supabase.co"} : \E key \in {"", "anon"} :
       supabase' = initSupabase(supabase, url, key)
  /\ call' = <<[op |-> "initSupabase", key |-> NoString, outcome |-> "ok"]>>
  /\ ret' = <<[raised |-> FALSE, value |-> NoString]>>
  /\ UNCHANGED <<remoteKey, fallbackKey, remoteSaved>>
  /\ storeFrame

CallSaveKey ==
  /\ \E apiKey \in Keys : \E write \in RemoteOutcomes :
       LET r == saveAbacateApiKeyToDB(supabase, write, apiKey, remoteKey, fallbackKey) IN
       /\ remoteKey' = r.remote
       /\ fallbackKey' = r.fallback
       /\ remoteSaved' = (remoteSaved \/ r.upserted)
       /\ call' = <<[op |-> "saveAbacateApiKeyToDB", key |-> apiKey, outcome |-> write]>>
       /\ ret' = <<[raised |-> r.raised, value |-> NoString]>>
  /\ UNCHANGED supabase
  /\ storeFrame

\* .single() answers PGRST116 when the row is missing, so the read succeeds
\* only when the row exists.
CallGetKey ==
  /\ \E read \in RemoteOutcomes :
       /\ read = "ok" => remoteKey # NoString
       /\ call' = <<[op |-> "getAbacateApiKey", key |-> NoString, outcome |-> read]>>
       /\ ret' = <<[raised |-> FALSE,
                    value |-> getAbacateApiKey(supabase, read, remoteKey, fallbackKey)]>>
  /\ UNCHANGED <<supabase, remoteKey, fallbackKey, remoteSaved>>
  /\ storeFrame

NextStore ==
  \/ CallInitSupabase
  \/ CallSaveKey
  \/ CallGetKey

SpecStore == InitStore /\ [][NextStore]_vars

\* ================================================================ claims

\* C1: once a tick of a polling loop has observed a terminal status (PAID,
\* CANCELED or FAILED) for a billing, at most one updateTransactionStatus call
\* is ever made for that billing and no further checkBillingStatus call is
\* issued for it.
C1_TerminalOnce ==
  [][\A b \in Billings :
       /\ observed'[b] # {} => updateCalls'[b] <= 1
       /\ observed[b] # {} => inflight'[b] <= inflight[b]]_vars

\* The half of C1 that the code keeps: after a terminal status was observed
\* for a billing no status check is issued for it.
C1_NoCheckAfterTerminal ==
  [][\A b \in Billings : observed[b] # {} => inflight'[b] <= inflight[b]]_vars

\* C2: at every moment at most one checkBillingStatus request is in flight
\* for a given transaction.
C2_NoOverlap == \A b \in Billings : inflight[b] <= 1

\* C3: resetForm leaves no polling timer active, the transaction null and the
\* form empty, the unmount cleanup leaves no polling timer active, and after
\* either no polling timer is active as long as no new submit is made.
C3_ResetCancels ==
  [][/\ resetForm => (DOMAIN timers' = {} /\ transaction' = Null /\ formData' = EmptyForm)
     /\ unmount => DOMAIN timers' = {}
     /\ cancelled' => DOMAIN timers' = {}]_vars

\* C4: in every reachable state at most one polling timer is active, and it
\* is the one held in pollIntervalRef.
C4_AtMostOneTimer ==
  /\ Cardinality(DOMAIN timers) <= 1
  /\ DOMAIN timers \subseteq {pollIntervalRef}

\* C4 witness: a startPolling found the timer of an earlier billing active,
\* cleared it, and the new one is the only timer.
C4_Witness == sub.cleared # Null /\ sub.cleared # sub.billing /\ DOMAIN timers = {sub.billing}

\* C5: whenever paymentStatus is PAID (or FAILED) while a transaction is
\* shown, a status check of that transaction's own billing returned PAID (or
\* CANCELED/FAILED); and the response of a status check of one billing never
\* cancels the polling timer of another billing.
C5_OnlyOwnCheck ==
  [][/\ (transaction' # Null /\ paymentStatus' \in {"PAID", "FAILED"})
          => paymentStatus' \in observed'[transaction']
     /\ \A b \in Billings :
          inflight'[b] < inflight[b] => (DOMAIN timers) \ (DOMAIN timers') \subseteq {b}]_vars

\* C6: in the step in which the status check of a tick of billing b returns
\* (the only step that lowers inflight[b]) and the callback goes on with the
\* status returned: when the status check returns PAID the loop of its billing
\* is stopped, the state becomes PAID and updateTransactionStatus(billing,
\* 'PAID') is called once; when it returns CANCELED or FAILED the loop is
\* stopped, the state becomes FAILED and updateTransactionStatus is called
\* once with that same status string; for any other value the state, the
\* timers and the persistence calls are unchanged.
C6_PerTick ==
  [][\A b \in Billings : inflight'[b] < inflight[b] => \A status \in ProviderStatuses :
       pollStatus(b, status) =>
         IF status \in {"PAID", "CANCELED", "FAILED"}
           THEN /\ paymentStatus' = (IF status = "PAID" THEN "PAID" ELSE "FAILED")
                /\ b \notin DOMAIN timers'
                /\ updateCalls' = [updateCalls EXCEPT ![b] = @ + 1]
                /\ lastUpdate'.billing = b /\ lastUpdate'.status = status
           ELSE /\ paymentStatus' = paymentStatus
                /\ timers' = timers
                /\ updateCalls' = updateCalls
                /\ lastUpdate' = lastUpdate]_vars

\* C6 witness: a status check returned CANCELED while its loop was running.
C6_Witness ==
  /\ lastUpdate.status = "CANCELED"
  /\ lastUpdate.billing = transaction
  /\ paymentStatus = "FAILED"
  /\ updateCalls[lastUpdate.billing] = 1
  /\ DOMAIN timers = {}

C8_NeverRaises ==
  ret # <<>> =>
    LET o == call[1].o
        id == call[1].billingId
        r == ret[1]
        arrived == o.direct = "response" \/ (o.direct = "failedToFetch" /\ o.relay = "response")
        hasEntry == /\ o.body.kind = "list"
                    /\ \E i \in DOMAIN o.body.entries : o.body.entries[i].id = id
    IN /\ ~r.raised
       /\ (~arrived \/ ~o.ok \/ o.body.kind # "list" \/ ~hasEntry) => r.value = "PENDING"
       /\ r.value # "PENDING" => (arrived /\ o.ok /\ hasEntry)
       /\ r.value \in ProviderStatuses

\* C8 witness: both fetches threw and the call returned PENDING, and (in
\* another run) a relayed list made it return PAID.
C8_Witness ==
  /\ ret # <<>>
  /\ call[1].o.direct = "failedToFetch" /\ call[1].o.relay = "error"
  /\ ret[1] = [raised |-> FALSE, value |-> "PENDING"]

\* C9 as claimed: the transaction shown is never that of a billing whose
\* saveTransaction is still in flight.
C9_TransactionAfterSave == ~(sub.pc = "saveTransaction" /\ transaction = sub.billing)

\* C9 as amended: while the key fetch, the billing creation or the
\* saveTransaction of a submit is in flight, isLoading is true and the billing
\* of that submit has no polling timer and no status check; the transaction
\* shown is null until createBilling has returned (and is that billing, or
\* null after a reset, while saveTransaction is in flight).
C9_PollingAfterSave ==
  sub.pc # "idle" =>
    /\ isLoading
    /\ nSubmits \notin DOMAIN timers
    /\ pollIntervalRef # nSubmits
    /\ inflight[nSubmits] = 0
    /\ sub.polls = 0
    /\ sub.pc # "saveTransaction" => transaction = Null
    /\ sub.pc = "saveTransaction" => transaction \in {Null, sub.billing}

\* C9 witness: saveTransaction is in flight and the billing is shown.
C9_Witness ==
  /\ sub.pc = "saveTransaction" /\ transaction = sub.billing
  /\ isLoading /\ sub.billing \notin DOMAIN timers

\* C10: a handleSubmit that ends because getAbacateApiKey returned null or
\* createBilling raised leaves an error message set, isLoading false and the
\* transaction null, has not called saveTransaction, has started no polling
\* timer and has called createBilling at most once.
C10_FailedSubmit ==
  [][((sub' # sub \/ nSubmits' # nSubmits) /\ sub'.pc = "idle" /\ sub'.cause \in {"getAbacateApiKey", "createBilling"}) =>
       /\ error' # NoString
       /\ ~isLoading'
       /\ transaction' = Null
       /\ sub'.saves = 0
       /\ sub'.polls = 0
       /\ timers' = timers /\ pollIntervalRef' = pollIntervalRef
       /\ sub'.creates <= 1
       /\ sub'.cause = "getAbacateApiKey" => sub'.creates = 0]_vars

\* C10 witness: createBilling raised and the submit ended with the error.
C10_Witness ==
  /\ sub.pc = "idle" /\ sub.cause = "createBilling" /\ sub.creates = 1
  /\ error # NoString /\ transaction = Null /\ ~isLoading

\* C15: saveTransaction and updateTransactionStatus never raise to their
\* caller, whatever the remote call does: handleSubmit's error handler never
\* runs because of saveTransaction, and once a polling callback has sent an
\* update, for no outcome of the remote call did updateTransactionStatus
\* raise into the callback.
C15_PersistenceNeverRaises ==
  /\ sub.cause # "saveTransaction"
  /\ lastUpdate.sent =>
       \A write \in RemoteOutcomes : ~updateTransactionStatus(supabase, write).raised

\* C16: every status written to the transactions table, by the insert of
\* handleSubmit and by the update of the polling callback, is one of PENDING,
\* PAID, EXPIRED, FAILED.
C16_StoredStatus ==
  /\ sub.inserted # NoString => sub.inserted \in {"PENDING", "PAID", "EXPIRED", "FAILED"}
  /\ lastUpdate.sent => lastUpdate.status \in {"PENDING", "PAID", "EXPIRED", "FAILED"}

\* C19: resetForm leaves a state that a second resetForm would not change
\* (no transaction, PENDING, the empty form, no active timer held by the ref),
\* whether or not a timer was ever started, and when the ref holds no active
\* timer (none was started, or it was cleared before) it changes no timer.
C19_ResetIdempotent ==
  [][resetForm =>
       /\ transaction' = Null /\ paymentStatus' = "PENDING" /\ formData' = EmptyForm
       /\ pollIntervalRef' \notin DOMAIN timers'
       /\ DOMAIN timers' \subseteq DOMAIN timers
       /\ pollIntervalRef \notin DOMAIN timers => timers' = timers
       /\ UNCHANGED <<error, isLoading, isSettingsOpen, pollIntervalRef, inflight>>]_vars

\* C19 witness: resetForm ran while saveTransaction was awaited, before any
\* timer was started.
C19_Witness ==
  /\ cancelled /\ transaction = Null /\ formData = EmptyForm
  /\ sub.pc = "saveTransaction" /\ pollIntervalRef = Null /\ DOMAIN timers = {}

C18_PayloadAsTyped ==
  (ret # <<>> /\ call[1].op = "createBilling") =>
    LET c == call[1].customer IN
    /\ ret[1].request.payload.customer.cellphone = c.phone
    /\ ret[1].request.payload.customer.taxId = c.cpf
    /\ Len(ret) = 2 =>
         /\ \A i \in DOMAIN ret[2].customer_cpf : ret[2].customer_cpf[i] \in Digits
         /\ ret[2].customer_cpf = SelectSeq(c.cpf, LAMBDA x : x \notin Punctuation)

\* C18 witness: a CPF typed with punctuation went to the provider as typed
\* and to saveTransaction without it.
C18_Witness ==
  /\ Len(ret) = 2
  /\ \E i \in DOMAIN call[1].customer.cpf : call[1].customer.cpf[i] \in Punctuation
  /\ ret[2].customer_cpf # <<>>
  /\ ret[1].request.payload.customer.taxId # ret[2].customer_cpf

\* C20: a provider operation makes one fetch, or two when (and only when)
\* the direct fetch failed with the TypeError 'Failed to fetch'; when the
\* direct fetch fails otherwise, or the relay fails too, createBilling raises
\* and checkBillingStatus returns PENDING.
C20_SingleRetry ==
  ret # <<>> =>
    LET o == call[1].o
        failed == o.direct = "otherError" \/ (o.direct = "failedToFetch" /\ o.relay = "error")
    IN /\ ret[1].request.fetches = (IF o.direct = "failedToFetch" THEN 2 ELSE 1)
       /\ failed => IF call[1].op = "createBilling"
                      THEN ret[1].result.raised /\ ret[1].result.id = Null
                      ELSE ret[1].result = [raised |-> FALSE, value |-> "PENDING"]

\* C20 witness: the direct fetch and the relay both failed in createBilling.
C20_Witness ==
  /\ ret # <<>> /\ call[1].op = "createBilling"
  /\ call[1].o.direct = "failedToFetch" /\ call[1].o.relay = "error"
  /\ ret[1].request.fetches = 2 /\ ret[1].result.raised

\* C11: a submit made while isSupabaseConfigured is false ends at once with
\* the configuration error set, the settings dialog open and isLoading false;
\* it fetches no key, calls neither createBilling nor saveTransaction, starts
\* no polling and leaves the transaction, the timers and the key store alone.
C11_NotConfigured ==
  [][(nSubmits' # nSubmits /\ ~isSupabaseConfigured) =>
       /\ error' = MsgNotConfigured
       /\ isSettingsOpen'
       /\ ~isLoading'
       /\ sub'.pc = "idle" /\ sub'.cause = "isSupabaseConfigured"
       /\ sub'.abacateKey = NoString
       /\ sub'.creates = 0 /\ sub'.saves = 0 /\ sub'.polls = 0
       /\ UNCHANGED <<transaction, paymentStatus, timers, pollIntervalRef, inflight,
                      updateCalls, storeVars>>]_vars

\* C11 witness: a submit was refused because the configuration is absent,
\* although a client and a provider key exist.
C11_Witness ==
  /\ ~isSupabaseConfigured /\ nSubmits > 0
  /\ sub.pc = "idle" /\ sub.cause = "isSupabaseConfigured"
  /\ error = MsgNotConfigured /\ isSettingsOpen /\ ~isLoading
  /\ transaction = Null

\* C12: getAbacateApiKey never raises, and whenever the remote read fails
\* (no client, a thrown exception, PGRST205, 42P01, PGRST116 or any other
\* error code) it returns the local fallback value, so it returns null only
\* when no fallback value is stored.
C12_KeyFallback ==
  (ret # <<>> /\ call[1].op = "getAbacateApiKey") =>
    /\ ~ret[1].raised
    /\ (~supabase \/ call[1].outcome # "ok") => ret[1].value = fallbackKey

\* C13: the config row and the local fallback never both hold a value, and
\* once an upsert has succeeded getAbacateApiKey returns no value taken from
\* the local fallback.
C13_OneKeyInEffect ==
  /\ ~(remoteKey # NoString /\ fallbackKey # NoString)
  /\ (remoteSaved /\ ret # <<>> /\ call[1].op = "getAbacateApiKey"
        /\ ret[1].value # NoString) =>
       (supabase /\ call[1].outcome = "ok" /\ ret[1].value = remoteKey)

\* C14: saveAbacateApiKeyToDB never raises; when the upsert succeeds it puts
\* the key in the config row and leaves the fallback empty; for PGRST205,
\* 42P01, any other error code, a thrown exception and no client it writes
\* the key to the fallback and leaves the config row alone.
C14_SaveKey ==
  [][CallSaveKey =>
       /\ ~ret'[1].raised
       /\ IF supabase /\ call'[1].outcome = "ok"
            THEN remoteKey' = call'[1].key /\ fallbackKey' = NoString
            ELSE fallbackKey' = call'[1].key /\ remoteKey' = remoteKey]_vars

\* C14 witness: the upsert answered another error code, the key went to the
\* fallback and the call returned normally.
C14_Witness ==
  /\ ret # <<>> /\ call[1].op = "saveAbacateApiKeyToDB"
  /\ supabase /\ call[1].outcome = "other"
  /\ fallbackKey = call[1].key /\ ~ret[1].raised

\* C24: once paymentStatus is PAID or FAILED for the transaction shown, it
\* keeps that value in every step other than resetForm.
C24_TerminalStays ==
  [][(transaction # Null /\ paymentStatus \in {"PAID", "FAILED"} /\ ~resetForm) =>
       paymentStatus' = paymentStatus]_vars

\* C25: whenever a transaction is shown with paymentStatus PENDING after
\* handleSubmit has finished (isLoading false) and the attempt limit has not
\* stopped its loop, a polling timer of that transaction's billing is active.
C25_AwaitingIsPolled ==
  (mounted /\ transaction # Null /\ paymentStatus = "PENDING" /\ ~isLoading
     /\ transaction \notin timedOut) =>
    transaction \in DOMAIN timers

\* C26: a getAbacateApiKey call that directly follows a returned
\* saveAbacateApiKeyToDB(K) returns K, whatever the upsert and the select did
\* and whatever the store held before.
C26_KeyRoundTrip ==
  [][(call # <<>> /\ call[1].op = "saveAbacateApiKeyToDB"
        /\ call' # call /\ call'[1].op = "getAbacateApiKey") =>
       ret'[1].value = call[1].key]_vars

\* C21: the step in which createBilling returns a billing calls
\* saveTransaction for it, once, with status PENDING; no handleSubmit calls
\* saveTransaction twice; the polling timer of a billing is started only in
\* the step in which the saveTransaction of that billing has returned; a
\* status check of a billing is issued only by its active timer and
\* updateTransactionStatus is called only by a returning status check.
C21_SaveBeforePolling ==
  [][/\ (sub.billing = Null /\ sub'.billing # Null) =>
          /\ sub'.billing = nSubmits /\ sub'.creates = 1 /\ sub'.saves = 1
          /\ supabase => (sub'.pc = "saveTransaction" /\ sub'.inserted = "PENDING")
     /\ sub'.saves <= 1
     /\ \A b \in Billings :
          /\ (b \notin DOMAIN timers /\ b \in DOMAIN timers') =>
               /\ sub'.pc = "idle" /\ sub'.billing = b
               /\ sub'.saves = 1 /\ sub'.polls = 1
               /\ supabase => (sub.pc = "saveTransaction" /\ sub.billing = b
                               /\ sub'.inserted = "PENDING")
          /\ inflight'[b] > inflight[b] => b \in DOMAIN timers
          /\ updateCalls'[b] > updateCalls[b] => inflight[b] > inflight'[b]]_vars

\* C21 witness: the insert of a billing was sent and has returned, its timer
\* runs and a status check of it is in flight.
C21_Witness ==
  /\ sub.pc = "idle" /\ sub.billing # Null
  /\ sub.saves = 1 /\ sub.inserted = "PENDING"
  /\ sub.billing \in DOMAIN timers /\ inflight[sub.billing] > 0
  /\ updateCalls[sub.billing] = 0

\* C22: with the timer firing for as long as it is active and every status
\* check returning, every polling timer that is active is eventually
\* cancelled (by a terminal status, by the tick after the 120th attempt, by
\* resetForm or by the unmount cleanup).
C22_LoopStops == \A b \in Billings : (b \in DOMAIN timers) ~> (b \notin DOMAIN timers)

\* C22 witness: a loop was cancelled by the tick after its 120th attempt and
\* all its status checks have returned.
C22_Witness ==
  /\ timedOut # {} /\ DOMAIN timers = {} /\ InFlight = 0
  /\ \A b \in timedOut : observed[b] = {}

\* C23: when a tick has issued a status check of a billing (so within its
\* first 120 attempts) and the provider reports PAID for that billing from
\* then on, then, unless resetForm or the unmount cleanup runs, eventually
\* paymentStatus is PAID and updateTransactionStatus(billing, 'PAID') has
\* been called.
C23_EventuallyPaid ==
  \A b \in Billings :
    (b \in reportsPaid /\ inflight[b] > 0) ~>
      \/ /\ paymentStatus = "PAID"
         /\ lastUpdate.billing = b /\ lastUpdate.status = "PAID"
         /\ updateCalls[b] > 0
      \/ cancelled

\* C23 witness: the provider reported PAID from some tick on, and the state
\* became Paid with the update called, no reset having run.
C23_Witness ==
  /\ transaction # Null /\ transaction \in reportsPaid /\ ~cancelled
  /\ paymentStatus = "PAID"
  /\ lastUpdate.billing = transaction /\ lastUpdate.status = "PAID"
  /\ timers = [h \in {} |-> 0]

====
